---- MODULE Spec2Model ----
(***************************************************************************)
(* A model of src/bootstrap.js: the BootStrap class that aggregates the    *)
(* routes of the modules, builds the context injected into the components, *)
(* installs the navigation guard and runs the start-up sequence.           *)
(*                                                                         *)
(* Objects of the program are modelled by identity: a route is referred to *)
(* by <<module index, position>> and lives in its module (startUp mutates  *)
(* it in place), a context and an HTTP client are indexes into the         *)
(* sequences of the objects created so far, a navigation's `to.params`     *)
(* object is identified by the navigation's index.                         *)
(***************************************************************************)
EXTENDS Naturals, Sequences, FiniteSets, TLC

\* ------------------------------------------------------------------ bounds
MaxModules == 3      \* modules in a boot configuration
MaxRoutes == 2       \* routes of one module
MaxNavs == 3         \* navigations that reach the guard in one run

VARIABLES
    pc,              \* stage of startUp reached so far
    modules,         \* this.modules: the module objects (routes, errors, errorLoaded)
    servers,         \* this.servers: the configured endpoint keys, or absent
    routePath,       \* this.routePath is configured
    routeName,       \* this.routeName is configured
    loginPath,       \* this.loginPath
    checkLogin,      \* what this.checkLogin() returns
    loggedinFlag,    \* the __checkUserLoggedin attribute the context carries
    perNavigation,   \* the "new context per navigation" option
    locationHash,    \* location.hash when the application is entered
    errorHandler,    \* Vue.config.errorHandler is installed
    routes,          \* the local `routes` of startUp: references to route objects
    thisRoutes,      \* this.routes, which the constructor and startUp never assign
    router,          \* this.router: whether built, and the table it was built with
    guardAttached,   \* router.beforeEach interceptor and the mixin are registered
    globalContext,   \* this.globalContext (0: null)
    routeContext,    \* the closure variable of attachRouteContext (0: null)
    contexts,        \* the context objects made so far
    clients,         \* the HttpClient instances made so far, by their configuration
    httpErrorCodes,  \* nt.httpErrorCodes, the error-code registry
    navs,            \* the navigations that reached the guard, in order
    components,      \* the components created so far (beforeCreate has run)
    loaderCalls,     \* per module: invocations of its `errors` function
    loaderMerges,    \* per module: merges of a loader result into the registry
    staticMerges,    \* per module: merges of its static `errors` mapping
    lastError,       \* what the global error handler did with the last UI error
    replaced         \* the router.replace request of the completion policy

vars == <<pc, modules, servers, routePath, routeName, loginPath, checkLogin, loggedinFlag,
          perNavigation, locationHash, errorHandler, routes, thisRoutes, router,
          guardAttached, globalContext, routeContext, contexts, clients,
          httpErrorCodes, navs, components, loaderCalls, loaderMerges,
          staticMerges, lastError, replaced>>

config == <<servers, routePath, routeName, loginPath, checkLogin, loggedinFlag,
            perNavigation, locationHash>>

\* ------------------------------------------------------------ the objects
\* route.meta: null/undefined, or an object whose `module` is a module index
\* (0: the meta object has no `module` yet).
NullMeta == [isNull |-> TRUE, module |-> 0]
EmptyMeta == [isNull |-> FALSE, module |-> 0]
MetaValues == {NullMeta, EmptyMeta}

\* The shapes of module.errors: absent, a function(ctx), a plain mapping.
ErrorsKinds == {"none", "function", "object"}

\* Error codes and their descriptions; the mapping a module contributes.
Codes == {"E1", "E2"}
NoDesc == "absent"
ErrorsOf(m) ==
    IF m % 2 = 1 THEN [c \in Codes |-> IF c = "E1" THEN "x" ELSE NoDesc]
    ELSE [c \in Codes |-> IF c = "E1" THEN "y" ELSE "z"]

\* Route lists of one module: sequences of routes of length 0..MaxRoutes.
RouteLists ==
    UNION {[1..n -> [meta : MetaValues]] : n \in 0..MaxRoutes}

\* A module without a `routes` field has no route list at all.
ModuleShapes(kinds) ==
    {m \in [hasRoutes : BOOLEAN, routes : RouteLists, errors : kinds,
             errorLoaded : {FALSE}] : m.hasRoutes \/ m.routes = <<>>}

\* Endpoint keys of bootOpts.servers in their insertion order, or absent.
ServerKeys == {"default", "billing"}
ServersValues ==
    {[present |-> FALSE, keys |-> <<>>],
     [present |-> TRUE, keys |-> <<>>],
     [present |-> TRUE, keys |-> <<"default">>],
     [present |-> TRUE, keys |-> <<"billing">>],
     [present |-> TRUE, keys |-> <<"default", "billing">>],
     [present |-> TRUE, keys |-> <<"billing", "default">>]}

NoClientConfig == "none"
ClientConfig(key) == key

Stages == <<"Unconfigured", "ErrorHandlerConfigured", "RoutesAggregated",
            "RouterBuilt", "GuardAttached", "Mounted", "Completed">>

\* pc when stage k of startUp (1: error handler, 2: aggregation, 3: router,
\* 4: guard, 5: mount) has thrown: the exception leaves startUp.
Failures == <<"FailedConfiguring", "FailedAggregating", "FailedBuildingRouter",
              "FailedAttaching", "FailedMounting">>

\* Navigation destinations: the application root, a path no route matches, or
\* a route object (by reference).
Root == <<0, 0>>
Unmatched == <<0, 1>>

NoRequest == [kind |-> "none", target |-> ""]
NoError == [vm |-> 0, forwardedTo |-> 0, raised |-> FALSE]

\* ------------------------------------------------------- context factory
\* Mutant of NewClient: the client is built without its configuration.
NewClientWithoutConfig(cl, cfg) == Append(cl, "none")

\* new HttpClient(cfg): a new instance, identified by its index in `clients`.
NewClient(cl, cfg) == Append(cl, cfg)

\* The loop of getContext over the keys of this.servers: one client per key,
\* the one keyed "default" also registered as ctx.server.
RECURSIVE RegisterServers(_, _, _, _)
RegisterServers(keys, i, ctx, cl) ==
    IF i > Len(keys) THEN [ctx |-> ctx, clients |-> cl]
    ELSE LET key == keys[i]
             cl2 == NewClient(cl, ClientConfig(key))
             c1 == [ctx EXCEPT !.servers[key] = Len(cl2)]
             c2 == IF key = "default" THEN [c1 EXCEPT !.server = c1.servers[key]]
                   ELSE c1
         IN  RegisterServers(keys, i + 1, c2, cl2)

\* Object.create(contextProto) with ctx.bootstrap set: no own servers, server
\* or params yet (0: undefined).
BlankContext ==
    [hasServers |-> FALSE, servers |-> [k \in ServerKeys |-> 0], server |-> 0,
     params |-> 0]

\* getContext(): the context and the clients after building it.
getContext(srv, cl) ==
    IF srv.present
    THEN RegisterServers(srv.keys, 1, [BlankContext EXCEPT !.hasServers = TRUE], cl)
    ELSE LET cl2 == NewClient(cl, NoClientConfig)
         IN  [ctx |-> [BlankContext EXCEPT !.server = Len(cl2)], clients |-> cl2]

\* _getContext(): the memoized context of the session (this.globalContext), or
\* a freshly built one when a context per navigation is configured.
_getContext(perNav, global, ctxs, srv, cl) ==
    IF ~perNav /\ global # 0
    THEN [id |-> global, global |-> global, contexts |-> ctxs, clients |-> cl]
    ELSE LET made == getContext(srv, cl)
             ctxs2 == Append(ctxs, made.ctx)
         IN  [id |-> Len(ctxs2),
              global |-> IF perNav THEN global ELSE Len(ctxs2),
              contexts |-> ctxs2, clients |-> made.clients]

\* --------------------------------------------------------- route aggregation
\* The forEach of startUp over one module's routes: a route without meta gets
\* an empty one, then meta.module is set to the owning module.
StampRoute(route, m) ==
    LET meta == IF route.meta.isNull THEN EmptyMeta ELSE route.meta
    IN  [route EXCEPT !.meta = [meta EXCEPT !.module = m]]

StampRoutes(rs, m) == [j \in 1..Len(rs) |-> StampRoute(rs[j], m)]

\* References to the routes of module m, in the module's own order.
RouteRefs(mods, m) == [j \in 1..Len(mods[m].routes) |-> <<m, j>>]

\* Mutant of PushRoutes: the routes of a module are put in front of the table.
PushRoutesInFront(acc, refs) == refs \o acc

\* [].push.apply(routes, module.routes)
PushRoutes(acc, refs) == acc \o refs

\* The for-of loop of startUp over this.modules, from module i on.
RECURSIVE AggregateFrom(_, _, _)
AggregateFrom(i, mods, acc) ==
    IF i > Len(mods) THEN [modules |-> mods, routes |-> acc]
    ELSE IF mods[i].hasRoutes
         THEN LET mods2 == [mods EXCEPT ![i].routes = StampRoutes(mods[i].routes, i)]
              IN  AggregateFrom(i + 1, mods2, PushRoutes(acc, RouteRefs(mods2, i)))
         ELSE AggregateFrom(i + 1, mods, acc)

RouteAt(ref) == modules[ref[1]].routes[ref[2]]

\* The table handed to new VueRouter: an undefined value, or a list of routes.
UndefinedTable == [defined |-> FALSE, table |-> <<>>]

\* ------------------------------------------------------------ start-up
\* configVue(): installs Vue.config.errorHandler.
ConfigVue ==
    /\ pc = "Unconfigured"
    /\ errorHandler' = TRUE
    /\ pc' = "ErrorHandlerConfigured"
    /\ UNCHANGED <<modules, config, routes, thisRoutes, router, guardAttached,
                   globalContext, routeContext, contexts, clients, httpErrorCodes,
                   navs, components, loaderCalls, loaderMerges, staticMerges,
                   lastError, replaced>>

\* The module loop of startUp: stamps the routes and collects them in `routes`.
AggregateRoutes ==
    /\ pc = "ErrorHandlerConfigured"
    /\ LET a == AggregateFrom(1, modules, <<>>)
       IN  /\ modules' = a.modules
           /\ routes' = a.routes
    /\ pc' = "RoutesAggregated"
    /\ UNCHANGED <<config, errorHandler, thisRoutes, router, guardAttached,
                   globalContext, routeContext, contexts, clients, httpErrorCodes,
                   navs, components, loaderCalls, loaderMerges, staticMerges,
                   lastError, replaced>>

\* The `routes` option of new VueRouter({routes: this.routes}).
RouterOptions == thisRoutes

BuildRouter ==
    /\ pc = "RoutesAggregated"
    /\ router' = [built |-> TRUE, routes |-> RouterOptions]
    /\ pc' = "RouterBuilt"
    /\ UNCHANGED <<modules, config, errorHandler, routes, thisRoutes, guardAttached,
                   globalContext, routeContext, contexts, clients, httpErrorCodes,
                   navs, components, loaderCalls, loaderMerges, staticMerges,
                   lastError, replaced>>

\* attachRouteContext(router): registers the interceptor and the mixin; the
\* closure variable routeContext starts as null.
AttachRouteContext ==
    /\ pc = "RouterBuilt"
    /\ guardAttached' = TRUE
    /\ routeContext' = 0
    /\ pc' = "GuardAttached"
    /\ UNCHANGED <<modules, config, errorHandler, routes, thisRoutes, router,
                   globalContext, contexts, clients, httpErrorCodes,
                   navs, components, loaderCalls, loaderMerges, staticMerges,
                   lastError, replaced>>

\* The stage startUp is about to run (1..5), or 0 when none of them is next.
StageRunning ==
    IF \E k \in 1..Len(Failures) : pc = Stages[k]
    THEN CHOOSE k \in 1..Len(Failures) : pc = Stages[k]
    ELSE 0

\* The stages startUp has completed so far.
StagesDone ==
    IF \E j \in 1..Len(Stages) : pc = Stages[j]
    THEN (CHOOSE j \in 1..Len(Stages) : pc = Stages[j]) - 1
    ELSE (CHOOSE k \in 1..Len(Failures) : pc = Failures[k]) - 1

\* Mutant of StageFails: the failing stage takes the error handler down with it.
StageFailsUndoing ==
    /\ StageRunning # 0
    /\ pc' = Failures[StageRunning]
    /\ errorHandler' = FALSE
    /\ UNCHANGED <<modules, config, routes, thisRoutes, router, guardAttached,
                   globalContext, routeContext, contexts, clients, httpErrorCodes,
                   navs, components, loaderCalls, loaderMerges, staticMerges,
                   lastError, replaced>>

\* A stage of startUp throws (a module or a route that is no object, an
\* exception of the router or of the UI framework): nothing catches it, the
\* rest of startUp does not run. The module loop may have stamped the routes
\* of the modules before the one it fails on.
StageFails ==
    /\ StageRunning # 0
    /\ pc' = Failures[StageRunning]
    /\ IF StageRunning = 2
       THEN \E i \in 1..Len(modules) :
              LET part == AggregateFrom(1, SubSeq(modules, 1, i - 1), <<>>)
              IN  modules' = part.modules \o SubSeq(modules, i, Len(modules))
       ELSE UNCHANGED modules
    /\ UNCHANGED <<config, errorHandler, routes, thisRoutes, router, guardAttached,
                   globalContext, routeContext, contexts, clients, httpErrorCodes,
                   navs, components, loaderCalls, loaderMerges, staticMerges,
                   lastError, replaced>>

\* ------------------------------------------------------ navigation guard
\* Mutants of Assign: keys already present are kept; the registry is replaced
\* by the merged mapping; nothing is merged.
AssignIfAbsent(target, source) ==
    [c \in Codes |-> IF target[c] # NoDesc THEN target[c] ELSE source[c]]
AssignReplacing(target, source) == source
AssignNothing(target, source) == target

\* Object.assign(nt.httpErrorCodes, errors)
Assign(target, source) ==
    [c \in Codes |-> IF source[c] # NoDesc THEN source[c] ELSE target[c]]

\* to && to.meta && to.meta.module: the owning module of the destination
\* (0: none).
ModuleOf(to) ==
    IF to[1] = 0 THEN 0
    ELSE IF RouteAt(to).meta.isNull THEN 0 ELSE RouteAt(to).meta.module

\* console.err is not a function of the console object: calling it raises a
\* TypeError inside the catch block.
consoleErrIsFunction == FALSE

\* How the guard ends once the catch block has run: next() is reached only
\* when the catch block itself completes.
AfterCatch == IF consoleErrIsFunction THEN "next" ELSE "threw"

\* Mutant of MustLoad: the errorLoaded flag is not consulted.
MustLoadIgnoringFlag(m) == modules[m].errors = "function"

\* isFunction(errors) && !errorLoaded: the loader is to be invoked.
MustLoad(m) == modules[m].errors = "function" /\ ~modules[m].errorLoaded

\* A navigation in the guard: its destination, whether the interceptor is
\* suspended or has ended and how (next(), next(false), or an exception that
\* leaves it), the context it obtained, and what became of the loader call it
\* made, if any.
NavRecord(to, stage, result, ctx, load) ==
    [to |-> to, stage |-> stage, result |-> result, ctx |-> ctx, load |-> load]

\* Mutant of IsRoot: no destination is taken for the root.
IsRootNever(to) == FALSE

\* to.fullPath === '/'
IsRoot(to) == to = Root

\* Mutant of GuardAbort: the context is obtained and given the params before
\* the destination is tested.
GuardAbortAfterContext(to) ==
    LET g == _getContext(perNavigation, globalContext, contexts, servers, clients)
    IN  /\ routeContext' = g.id
        /\ globalContext' = g.global
        /\ contexts' = [g.contexts EXCEPT ![g.id].params = Len(navs) + 1]
        /\ clients' = g.clients
        /\ navs' = Append(navs, NavRecord(to, "done", "abort", 0, "none"))
        /\ UNCHANGED <<modules, httpErrorCodes, loaderCalls, loaderMerges,
                       staticMerges>>

\* The interceptor for the root: next(false) and return.
GuardAbort(to) ==
    /\ navs' = Append(navs, NavRecord(to, "done", "abort", 0, "none"))
    /\ UNCHANGED <<modules, globalContext, routeContext, contexts, clients,
                   httpErrorCodes, loaderCalls, loaderMerges, staticMerges>>

\* The interceptor from its entry up to its first suspension (or its end).
GuardEnter(to) ==
    IF IsRoot(to)
    THEN GuardAbort(to)
    ELSE LET n == Len(navs) + 1
             g == _getContext(perNavigation, globalContext, contexts, servers, clients)
             m == ModuleOf(to)
         IN  /\ routeContext' = g.id
             /\ globalContext' = g.global
             /\ contexts' = [g.contexts EXCEPT ![g.id].params = n]
             /\ clients' = g.clients
             /\ IF m # 0 /\ MustLoad(m)
                THEN /\ loaderCalls' = [loaderCalls EXCEPT ![m] = @ + 1]
                     /\ \E sync \in {"throws", "returns"} :
                          navs' = Append(navs,
                                    IF sync = "throws"
                                    THEN NavRecord(to, "done", AfterCatch, g.id, "failed")
                                    ELSE NavRecord(to, "awaiting", "none", g.id, "pending"))
                     /\ UNCHANGED <<modules, httpErrorCodes, loaderMerges, staticMerges>>
                ELSE IF m # 0 /\ modules[m].errors = "object"
                THEN /\ httpErrorCodes' = Assign(httpErrorCodes, ErrorsOf(m))
                     /\ staticMerges' = [staticMerges EXCEPT ![m] = @ + 1]
                     /\ navs' = Append(navs, NavRecord(to, "done", "next", g.id, "none"))
                     /\ UNCHANGED <<modules, loaderCalls, loaderMerges>>
                ELSE /\ navs' = Append(navs, NavRecord(to, "done", "next", g.id, "none"))
                     /\ UNCHANGED <<modules, httpErrorCodes, loaderCalls,
                                    loaderMerges, staticMerges>>

\* Mutant of GuardResume: the module is marked as loaded whatever the outcome.
GuardResumeRemembering(n, outcome) ==
    LET m == ModuleOf(navs[n].to)
    IN  /\ modules' = [modules EXCEPT ![m].errorLoaded = TRUE]
        /\ IF outcome = "resolves"
           THEN /\ httpErrorCodes' = Assign(httpErrorCodes, ErrorsOf(m))
                /\ loaderMerges' = [loaderMerges EXCEPT ![m] = @ + 1]
                /\ navs' = [navs EXCEPT ![n].stage = "done", ![n].result = "next",
                                         ![n].load = "ok"]
           ELSE /\ navs' = [navs EXCEPT ![n].stage = "done",
                                         ![n].result = AfterCatch,
                                         ![n].load = "failed"]
                /\ UNCHANGED <<httpErrorCodes, loaderMerges>>

\* The interceptor resumed when the awaited result of the loader settles.
GuardResume(n, outcome) ==
    LET m == ModuleOf(navs[n].to)
    IN  IF outcome = "resolves"
        THEN /\ httpErrorCodes' = Assign(httpErrorCodes, ErrorsOf(m))
             /\ loaderMerges' = [loaderMerges EXCEPT ![m] = @ + 1]
             /\ modules' = [modules EXCEPT ![m].errorLoaded = TRUE]
             /\ navs' = [navs EXCEPT ![n].stage = "done", ![n].result = "next",
                                      ![n].load = "ok"]
        ELSE /\ navs' = [navs EXCEPT ![n].stage = "done", ![n].result = AfterCatch,
                                      ![n].load = "failed"]
             /\ UNCHANGED <<httpErrorCodes, loaderMerges, modules>>

\* The beforeCreate hook of the mixin: the component takes the closure
\* variable routeContext as its ctx.
BeforeCreate(nav, rc, ctxs) ==
    [nav |-> nav, ctx |-> rc, params |-> IF rc = 0 THEN 0 ELSE ctxs[rc].params]

\* What the router resolves location.hash to when the application is entered.
InitialDestination ==
    IF locationHash = "#/" THEN Root
    ELSE IF router.routes.defined /\ router.routes.table # <<>>
         THEN router.routes.table[1]
         ELSE Unmatched

\* Mutant of Mount: the root is mounted before the guard is attached.
MountBeforeGuard ==
    /\ pc = "RouterBuilt"
    /\ GuardEnter(InitialDestination)
    /\ components' = Append(components, BeforeCreate(0, routeContext', contexts'))
    /\ pc' = "Mounted"
    /\ UNCHANGED <<config, errorHandler, routes, thisRoutes, router, guardAttached,
                   lastError, replaced>>

\* new Vue(this.VueRoot).$mount(this.mount): the router starts the initial
\* navigation, which runs the interceptor, and the root component is created.
Mount ==
    /\ pc = "GuardAttached"
    /\ GuardEnter(InitialDestination)
    /\ components' = Append(components, BeforeCreate(0, routeContext', contexts'))
    /\ pc' = "Mounted"
    /\ UNCHANGED <<config, errorHandler, routes, thisRoutes, router, guardAttached,
                   lastError, replaced>>

\* pageLogin(): router.replace({path: this.loginPath})
pageLogin == [kind |-> "path", target |-> loginPath]

\* Mutant of pageHome: the route name is tried before the route path.
pageHomeNameFirst ==
    IF routeName # "" THEN [kind |-> "name", target |-> routeName]
    ELSE IF routePath # "" THEN [kind |-> "path", target |-> routePath]
    ELSE NoRequest

\* pageHome(): router.replace to routePath, else to the route named routeName.
pageHome ==
    IF routePath # "" THEN [kind |-> "path", target |-> routePath]
    ELSE IF routeName # "" THEN [kind |-> "name", target |-> routeName]
    ELSE NoRequest

\* started(): at the application root, the context flag decides between the
\* login page and the home page.
CompletionPolicy == IF loggedinFlag = "false" THEN pageLogin ELSE pageHome

\* Mutant of Started: the policy builds a context of its own with
\* getContext() instead of asking _getContext() for the session's one.
StartedOwnContext ==
    /\ pc = "Mounted"
    /\ IF locationHash = "#/"
       THEN LET made == getContext(servers, clients)
            IN  /\ contexts' = Append(contexts, made.ctx)
                /\ clients' = made.clients
                /\ replaced' = CompletionPolicy
       ELSE UNCHANGED <<contexts, clients, replaced>>
    /\ pc' = "Completed"
    /\ UNCHANGED <<modules, config, errorHandler, routes, thisRoutes, router,
                   guardAttached, globalContext, routeContext, httpErrorCodes,
                   navs, components, loaderCalls, loaderMerges, staticMerges,
                   lastError>>

Started ==
    /\ pc = "Mounted"
    /\ IF locationHash = "#/"
       THEN LET g == _getContext(perNavigation, globalContext, contexts, servers, clients)
            IN  /\ globalContext' = g.global
                /\ contexts' = g.contexts
                /\ clients' = g.clients
                /\ replaced' = CompletionPolicy
       ELSE UNCHANGED <<globalContext, contexts, clients, replaced>>
    /\ pc' = "Completed"
    /\ UNCHANGED <<modules, config, errorHandler, routes, thisRoutes, router,
                   guardAttached, routeContext, httpErrorCodes, navs, components,
                   loaderCalls, loaderMerges, staticMerges, lastError>>

\* ------------------------------------------------------------ after boot
\* What the router may hand to the interceptor as `to`: the root, a location
\* that matches no route, or one of the stamped route objects of the modules
\* (the interceptor reads to.meta.module whatever table the router was built
\* with).
Destinations == {Root, Unmatched} \cup {routes[k] : k \in 1..Len(routes)}

\* Mutant of NavEnter: the interceptor is entered only when no navigation is
\* suspended in it.
NavEnterBlocked ==
    /\ pc = "Completed"
    /\ Len(navs) < MaxNavs
    /\ \A n \in 1..Len(navs) : navs[n].stage # "awaiting"
    /\ \E to \in Destinations : GuardEnter(to)
    /\ UNCHANGED <<pc, config, errorHandler, routes, thisRoutes, router,
                   guardAttached, components, lastError, replaced>>

\* A navigation reaches the interceptor.
NavEnter ==
    /\ pc = "Completed"
    /\ Len(navs) < MaxNavs
    /\ \E to \in Destinations : GuardEnter(to)
    /\ UNCHANGED <<pc, config, errorHandler, routes, thisRoutes, router,
                   guardAttached, components, lastError, replaced>>

\* The result a suspended navigation awaits settles.
LoaderSettles ==
    /\ \E n \in 1..Len(navs) :
         /\ navs[n].stage = "awaiting"
         /\ \E outcome \in {"resolves", "rejects"} : GuardResume(n, outcome)
    /\ UNCHANGED <<pc, config, errorHandler, routes, thisRoutes, router,
                   guardAttached, globalContext, routeContext, contexts, clients,
                   components, loaderCalls, staticMerges, lastError, replaced>>

\* A component of a navigation the guard allowed is created.
CreateComponent ==
    /\ \E n \in 1..Len(navs) :
         /\ navs[n].result = "next"
         /\ \A c \in 1..Len(components) : components[c].nav # n
         /\ components' = Append(components, BeforeCreate(n, routeContext, contexts))
    /\ UNCHANGED <<pc, modules, config, errorHandler, routes, thisRoutes, router,
                   guardAttached, globalContext, routeContext, contexts, clients,
                   httpErrorCodes, navs, loaderCalls, loaderMerges, staticMerges,
                   lastError, replaced>>

\* Mutant of ErrorHandler: vm.ctx.onError is called without the test of vm.ctx.
ErrorHandlerUnguarded(vm) ==
    [vm |-> vm, forwardedTo |-> components[vm].ctx,
     raised |-> components[vm].ctx = 0]

\* Vue.config.errorHandler(err, vm, info)
ErrorHandler(vm) ==
    IF components[vm].ctx # 0
    THEN [vm |-> vm, forwardedTo |-> components[vm].ctx, raised |-> FALSE]
    ELSE [vm |-> vm, forwardedTo |-> 0, raised |-> FALSE]

\* The framework reports an error of a component to the installed handler.
ErrorReported ==
    /\ errorHandler
    /\ \E vm \in 1..Len(components) : lastError' = ErrorHandler(vm)
    /\ UNCHANGED <<pc, modules, config, errorHandler, routes, thisRoutes, router,
                   guardAttached, globalContext, routeContext, contexts, clients,
                   httpErrorCodes, navs, components, loaderCalls, loaderMerges,
                   staticMerges, replaced>>

\* ------------------------------------------------------------ initial states
\* The state the constructor leaves, for a given boot configuration.
Constructed(mods) ==
    /\ pc = "Unconfigured"
    /\ modules = mods
    /\ errorHandler = FALSE
    /\ routes = <<>>
    /\ thisRoutes = UndefinedTable
    /\ router = [built |-> FALSE, routes |-> UndefinedTable]
    /\ guardAttached = FALSE
    /\ globalContext = 0
    /\ routeContext = 0
    /\ contexts = <<>>
    /\ clients = <<>>
    /\ httpErrorCodes = [c \in Codes |-> NoDesc]
    /\ navs = <<>>
    /\ components = <<>>
    /\ loaderCalls = [m \in 1..Len(mods) |-> 0]
    /\ loaderMerges = [m \in 1..Len(mods) |-> 0]
    /\ staticMerges = [m \in 1..Len(mods) |-> 0]
    /\ lastError = NoError
    /\ replaced = NoRequest

Module(rs, errors) ==
    [hasRoutes |-> TRUE, routes |-> rs, errors |-> errors, errorLoaded |-> FALSE]

OneRoute == <<[meta |-> NullMeta]>>

DefaultOptions ==
    /\ servers = [present |-> FALSE, keys |-> <<>>]
    /\ routePath = "/home"
    /\ routeName = ""
    /\ loginPath = "/login"
    /\ checkLogin = TRUE
    /\ loggedinFlag = "undefined"

\* Boot configurations for the guard: two modules with one route each.
NavModuleLists ==
    {<<Module(OneRoute, "function"), Module(OneRoute, "object")>>,
     <<Module(OneRoute, "function"), Module(OneRoute, "function")>>,
     <<Module(OneRoute, "object"), Module(OneRoute, "none")>>}

Init ==
    /\ \E mods \in NavModuleLists : Constructed(mods)
    /\ DefaultOptions
    /\ perNavigation \in BOOLEAN
    /\ locationHash \in {"#/", "#/deep"}

Next ==
    \/ ConfigVue
    \/ AggregateRoutes
    \/ BuildRouter
    \/ AttachRouteContext
    \/ Mount
    \/ Started
    \/ StageFails
    \/ NavEnter
    \/ LoaderSettles
    \/ CreateComponent
    \/ ErrorReported

Spec == Init /\ [][Next]_vars

\* Navigations that follow one another: a navigation reaches the interceptor
\* only when no earlier one is suspended in it.
NavEnterSeq ==
    /\ \A n \in 1..Len(navs) : navs[n].stage # "awaiting"
    /\ NavEnter

NextSeq ==
    \/ ConfigVue
    \/ AggregateRoutes
    \/ BuildRouter
    \/ AttachRouteContext
    \/ Mount
    \/ Started
    \/ StageFails
    \/ NavEnterSeq
    \/ LoaderSettles
    \/ CreateComponent
    \/ ErrorReported

SpecSeq == Init /\ [][NextSeq]_vars

\* One call of startUp over the boot configurations: every module list up to
\* the bounds with the default options, and every combination of the options
\* with one module list.
BootModuleLists ==
    UNION {[1..n -> ModuleShapes({"none"})] : n \in 0..MaxModules}

InitBoot ==
    \/ /\ \E mods \in BootModuleLists : Constructed(mods)
       /\ DefaultOptions
       /\ perNavigation = FALSE
       /\ locationHash \in {"#/", "#/deep"}
    \/ /\ Constructed(<<Module(OneRoute, "function"), Module(OneRoute, "object")>>)
       /\ servers \in ServersValues
       /\ routePath \in {"", "/home"}
       /\ routeName \in {"", "home"}
       /\ loginPath \in {"/login", "/signin"}
       /\ checkLogin \in BOOLEAN
       /\ loggedinFlag \in {"undefined", "true", "false"}
       /\ perNavigation \in BOOLEAN
       /\ locationHash \in {"#/", "#/deep"}

NextBoot ==
    \/ ConfigVue
    \/ AggregateRoutes
    \/ BuildRouter
    \/ AttachRouteContext
    \/ Mount
    \/ Started
    \/ StageFails

SpecBoot == InitBoot /\ [][NextBoot]_vars

\* ------------------------------------------------------------ properties
Count(S) == Cardinality(S)

\* The navigations whose destination is a route of module m.
NavsTo(m) == {n \in 1..Len(navs) : ModuleOf(navs[n].to) = m}
Suspended(m) == {n \in NavsTo(m) : navs[n].stage = "awaiting"}
Invoked(m) == {n \in NavsTo(m) : navs[n].load # "none"}
Failed(m) == {n \in NavsTo(m) : navs[n].load = "failed"}
Loaded(m) == {n \in NavsTo(m) : navs[n].load = "ok"}
LoaderModules == {m \in 1..Len(modules) : modules[m].errors = "function"}

\* C1 as stated: for a module whose `errors` is a function, once one or more
\* navigations to its routes have gone through the guard one after the other,
\* the loader has been invoked exactly once and its result merged exactly once.
C1_ExactlyOnce ==
    \A m \in LoaderModules :
        (NavsTo(m) # {} /\ Suspended(m) = {})
            => loaderCalls[m] = 1 /\ loaderMerges[m] = 1

\* C1 amended: with navigations that follow one another, the loader of a
\* module is invoked once by every navigation to the module up to and including
\* the first whose load succeeds and by none after it, and only that successful
\* result is merged, once: a failed load is invoked again by the next
\* navigation, and when no load fails the loader is invoked exactly once.
C1_OnceUntilLoaded ==
    \A m \in LoaderModules :
        /\ loaderCalls[m] = Count(Invoked(m))
        /\ loaderMerges[m] = Count(Loaded(m))
        /\ loaderMerges[m] = (IF modules[m].errorLoaded THEN 1 ELSE 0)
        /\ \A n \in NavsTo(m) :
             n \in Invoked(m) <=> (\A k \in NavsTo(m) : k < n => k \in Failed(m))
        /\ (Failed(m) = {} /\ NavsTo(m) # {}) => loaderCalls[m] = 1

\* Two navigations to the same loader module have gone through the guard, one
\* after the other, and the first of them loaded the error definitions.
C1_Witness ==
    \E m \in LoaderModules :
        /\ Count(NavsTo(m)) >= 2
        /\ Suspended(m) = {}
        /\ loaderCalls[m] = 1
        /\ loaderMerges[m] = 1

\* C2 as stated: also when navigations to a module overlap in the guard, the
\* loader of the module is invoked only once and its result merged only once
\* (no load of the module having failed).
C2_OnceWhenOverlapping ==
    \A m \in LoaderModules :
        Failed(m) = {} => loaderCalls[m] <= 1 /\ loaderMerges[m] <= 1

\* C3 as stated: a navigation to a destination other than the root whose
\* loader threw or rejected has left the guard allowed, with next().
C3_FailureStillAllows ==
    \A n \in 1..Len(navs) :
        (navs[n].load = "failed" /\ navs[n].to # Root) => navs[n].result = "next"

RECURSIVE TotalRoutes(_)
TotalRoutes(i) ==
    IF i = 0 THEN 0 ELSE TotalRoutes(i - 1) + Len(modules[i].routes)

Before(a, b) == a[1] < b[1] \/ (a[1] = b[1] /\ a[2] < b[2])

\* C4: once startUp has aggregated the routes, the table holds every route of
\* every module exactly once, in module order and within a module in the
\* module's own order, and every route in it has a non-null meta whose
\* meta.module is the module that owns it.
C4_Aggregated ==
    pc \in {Stages[j] : j \in 3..Len(Stages)} =>
        /\ Len(routes) = TotalRoutes(Len(modules))
        /\ \A k \in 1..Len(routes) :
             /\ routes[k][1] \in 1..Len(modules)
             /\ modules[routes[k][1]].hasRoutes
             /\ routes[k][2] \in 1..Len(modules[routes[k][1]].routes)
             /\ ~RouteAt(routes[k]).meta.isNull
             /\ RouteAt(routes[k]).meta.module = routes[k][1]
        /\ \A k, l \in 1..Len(routes) : k < l => Before(routes[k], routes[l])

\* Routes of two modules, one of them with two routes, have been aggregated
\* next to a module without routes.
C4_Witness ==
    /\ pc = "RoutesAggregated"
    /\ Len(routes) >= 3
    /\ routes[1][1] # routes[Len(routes)][1]
    /\ \E m \in 1..Len(modules) : ~modules[m].hasRoutes

\* C5 as stated: the router is constructed with the aggregated route table,
\* so every route installed in it has meta.module set.
C5_RouterGetsAggregated ==
    router.built =>
        /\ router.routes.table = routes
        /\ \A k \in 1..Len(router.routes.table) :
             RouteAt(router.routes.table[k]).meta.module # 0

\* C6: a navigation to the application root that reaches the guard, before
\* startUp has completed in particular, is aborted with next(false) and is
\* never allowed with next().
C6_RootAborted ==
    \A n \in 1..Len(navs) :
        navs[n].to = Root => navs[n].stage = "done" /\ navs[n].result = "abort"

\* The initial navigation to the root was aborted during the mount, before
\* the completion policy ran.
C6_Witness ==
    /\ pc = "Mounted"
    /\ Len(navs) = 1
    /\ navs[1].to = Root
    /\ navs[1].result = "abort"

HomeRequest ==
    IF routePath # "" THEN [kind |-> "path", target |-> routePath]
    ELSE IF routeName # "" THEN [kind |-> "name", target |-> routeName]
    ELSE NoRequest

\* C7 as stated: at the application root the completion policy requests the
\* login path when checkLogin() or the __checkUserLoggedin flag is false, and
\* otherwise the route path if configured, else the named route.
C7_LoginByCheckOrFlag ==
    (pc = "Completed" /\ locationHash = "#/") =>
        replaced = IF ~checkLogin \/ loggedinFlag = "false"
                   THEN [kind |-> "path", target |-> loginPath]
                   ELSE HomeRequest

\* C7 amended: at the application root the completion policy requests the
\* login path exactly when the __checkUserLoggedin flag of the context is
\* false (checkLogin is not consulted), and otherwise, the flag undefined
\* included, the route path if configured, else the named route if
\* configured, the path winning over the name.
C7_LoginByFlag ==
    (pc = "Completed" /\ locationHash = "#/") =>
        replaced = IF loggedinFlag = "false"
                   THEN [kind |-> "path", target |-> loginPath]
                   ELSE HomeRequest

\* The policy has sent a session whose flag is undefined to the route path
\* although a route name is configured too.
C7_Witness ==
    /\ pc = "Completed"
    /\ locationHash = "#/"
    /\ loggedinFlag = "undefined"
    /\ routePath # ""
    /\ routeName # ""
    /\ replaced.kind = "path"

\* C8: every context the factory has built has, without a servers option, a
\* server built with no configuration and no servers attribute; and with a
\* servers option one client per configured key, built from the key's
\* configuration and distinct from the clients of the other keys, with server
\* the very client of the key "default" when there is one.
C8_ContextShape ==
    \A i \in 1..Len(contexts) :
        LET ctx == contexts[i]
            keys == {servers.keys[j] : j \in 1..Len(servers.keys)}
        IN  IF ~servers.present
            THEN /\ ~ctx.hasServers
                 /\ \A k \in ServerKeys : ctx.servers[k] = 0
                 /\ ctx.server \in 1..Len(clients)
                 /\ clients[ctx.server] = NoClientConfig
            ELSE /\ ctx.hasServers
                 /\ \A k \in keys :
                      /\ ctx.servers[k] \in 1..Len(clients)
                      /\ clients[ctx.servers[k]] = ClientConfig(k)
                 /\ \A k, l \in keys : k # l => ctx.servers[k] # ctx.servers[l]
                 /\ "default" \in keys => ctx.server = ctx.servers["default"]

\* A context has been built from a servers option with the keys "billing" and
\* "default".
C8_Witness ==
    /\ Len(servers.keys) = 2
    /\ Len(contexts) >= 1
    /\ contexts[1].server # 0

\* C9 as stated: every component has as ctx the context the guard produced
\* for the navigation that made it mount (for the root component, the initial
\* navigation), with the params of that navigation.
C9_ComponentContext ==
    \A c \in 1..Len(components) :
        LET n == IF components[c].nav = 0 THEN 1 ELSE components[c].nav
        IN  /\ components[c].ctx # 0
            /\ components[c].ctx = navs[n].ctx
            /\ components[c].params = n

\* C10: whatever error the framework has reported to the installed handler,
\* the handler forwarded it to the onError of the failing component's context
\* exactly when the component has one, and otherwise did nothing and raised
\* nothing.
C10_Forwarding ==
    lastError # NoError =>
        LET ctx == components[lastError.vm].ctx
        IN  /\ errorHandler
            /\ ~lastError.raised
            /\ lastError.forwardedTo = ctx

\* An error of a component without context has been handled while another
\* component has a context.
C10_Witness ==
    /\ lastError # NoError
    /\ components[lastError.vm].ctx = 0
    /\ \E c \in 1..Len(components) : components[c].ctx # 0

\* The navigations that obtained a context (all but the aborted ones).
WithContext == {n \in 1..Len(navs) : navs[n].ctx # 0}

\* The contexts the completion policy has obtained: one, when it ran at the
\* application root.
PolicyContexts == IF pc = "Completed" /\ locationHash = "#/" THEN 1 ELSE 0

C12_StagesInOrder ==
    /\ [](/\ errorHandler <=> StagesDone >= 1
          /\ router.built <=> StagesDone >= 3
          /\ guardAttached <=> StagesDone >= 4
          /\ components # <<>> <=> StagesDone >= 5
          /\ replaced # NoRequest => pc = "Completed")
    /\ [][/\ pc' # pc =>
               \/ \E j \in 1..(Len(Stages) - 1) : pc = Stages[j] /\ pc' = Stages[j + 1]
               \/ \E k \in 1..Len(Failures) : pc = Stages[k] /\ pc' = Failures[k]
          /\ replaced' # replaced => pc = "Mounted" /\ pc' = "Completed"
          /\ routes' # routes => pc = "ErrorHandlerConfigured"]_vars

\* startUp has gone through all its stages and the policy has made a request.
C12_Witness ==
    /\ pc = "Completed"
    /\ errorHandler
    /\ routes # <<>>
    /\ router.built
    /\ guardAttached
    /\ components # <<>>
    /\ replaced # NoRequest

FailedStates == {Failures[k] : k \in 1..Len(Failures)}

\* C13: once one of the stages 1 to 5 has failed nothing of startUp runs any
\* more: the root is not mounted after a failure before the mount and the
\* completion policy never runs; and the failing step undoes nothing of the
\* stages completed before it.
C13_FailurePropagates ==
    /\ [](pc \in FailedStates =>
            /\ components = <<>>
            /\ navs = <<>>
            /\ replaced = NoRequest
            /\ errorHandler <=> StagesDone >= 1
            /\ router.built <=> StagesDone >= 3
            /\ guardAttached <=> StagesDone >= 4
            /\ StagesDone >= 2 =>
                 \A k \in 1..Len(routes) : RouteAt(routes[k]).meta.module = routes[k][1])
    /\ [][(pc \in FailedStates) => UNCHANGED vars]_vars
    /\ [][pc' \in FailedStates =>
            /\ errorHandler' = errorHandler
            /\ router' = router
            /\ guardAttached' = guardAttached
            /\ routes' = routes
            /\ \A m \in 1..Len(modules) : \A j \in 1..Len(modules[m].routes) :
                 modules[m].routes[j].meta.module # 0 =>
                     modules'[m].routes[j] = modules[m].routes[j]]_vars

\* The mount has failed after the routes were aggregated and the router built.
C13_Witness ==
    /\ pc = "FailedMounting"
    /\ routes # <<>>
    /\ router.built
    /\ guardAttached

\* The module of the navigation that has just entered the guard in a step.
Entering == ModuleOf(navs'[Len(navs')].to)

\* C14: a navigation to a route of a module with a static `errors` mapping
\* merges the mapping: after it every key of the mapping has the mapping's
\* value and the other keys are as before; and when the navigation before it
\* went to the same module, the registry is left as that visit left it.
C14_StaticMergeIdempotent ==
    [][(Len(navs') = Len(navs) + 1 /\ Entering # 0
            /\ modules[Entering].errors = "object") =>
         /\ staticMerges'[Entering] = staticMerges[Entering] + 1
         /\ \A c \in Codes :
              httpErrorCodes'[c] = IF ErrorsOf(Entering)[c] # NoDesc
                                   THEN ErrorsOf(Entering)[c]
                                   ELSE httpErrorCodes[c]
         /\ (navs # <<>> /\ ModuleOf(navs[Len(navs)].to) = Entering)
                => httpErrorCodes' = httpErrorCodes]_vars

\* The routes of a module with a static mapping have been visited twice in a
\* row, over a registry that held another description of a key of the mapping.
C14_Witness ==
    \E m \in 1..Len(modules) :
        /\ modules[m].errors = "object"
        /\ staticMerges[m] = 2
        /\ Len(navs) = 3
        /\ ModuleOf(navs[2].to) = m
        /\ ModuleOf(navs[3].to) = m

\* The mapping merged in a step, if any: that of the module whose merge
\* count has gone up.
Merging == {m \in 1..Len(modules) :
              loaderMerges'[m] # loaderMerges[m] \/ staticMerges'[m] # staticMerges[m]}

\* C15: no step removes a key from the registry; a step that merges the
\* mapping of a module gives every key of the mapping the mapping's value and
\* leaves the other keys as they were; and no other step changes the registry.
C15_RegistryGrows ==
    [][/\ \A c \in Codes : httpErrorCodes[c] # NoDesc => httpErrorCodes'[c] # NoDesc
       /\ Merging = {} => httpErrorCodes' = httpErrorCodes
       /\ \A m \in Merging : \A c \in Codes :
            httpErrorCodes'[c] = IF ErrorsOf(m)[c] # NoDesc THEN ErrorsOf(m)[c]
                                 ELSE httpErrorCodes[c]]_vars

\* The mapping of module 1 has been merged over that of module 2: it has
\* overwritten the key E1 and left the key E2.
C15_Witness ==
    /\ Len(modules) >= 2
    /\ loaderMerges[1] + staticMerges[1] >= 1
    /\ loaderMerges[2] + staticMerges[2] >= 1
    /\ httpErrorCodes["E1"] = "x"
    /\ httpErrorCodes["E2"] = "z"

\* C16: while a navigation is suspended on the loader of its module, another
\* navigation can enter the guard, and every navigation that entered after it
\* and needed no load of its own has been allowed with next().
C16_SuspensionDoesNotBlock ==
    \A n \in 1..Len(navs) :
        navs[n].stage = "awaiting" =>
            /\ (pc = "Completed" /\ Len(navs) < MaxNavs) => ENABLED NavEnter
            /\ \A k \in 1..Len(navs) :
                 (k > n /\ navs[k].to # Root /\ navs[k].load = "none")
                     => navs[k].stage = "done" /\ navs[k].result = "next"

\* A navigation to a route of another module has been allowed while an
\* earlier navigation is still suspended.
C16_Witness ==
    \E n, k \in 1..Len(navs) :
        /\ n < k
        /\ navs[n].stage = "awaiting"
        /\ ModuleOf(navs[k].to) \notin {0, ModuleOf(navs[n].to)}
        /\ navs[k].result = "next"

\* C17 as stated: the only navigation the guard aborts is one to the root
\* that reached it before startUp had completed (the initial navigation, made
\* during the mount); no navigation made after the completion is aborted.
C17_AbortOnlyBeforeCompletion ==
    \A n \in 1..Len(navs) :
        navs[n].result = "abort" => n = 1 /\ navs[n].to = Root

\* The navigations whose loader call has failed.
FailedLoads(ns) == {n \in 1..Len(ns) : ns[n].load = "failed"}

\* C18: the step in which a loader call fails leaves every errorLoaded flag
\* and the registry as they were, and a navigation to a module all of whose
\* earlier navigations failed to load has invoked the loader again.
C18_FailedLoadRetried ==
    /\ [][FailedLoads(navs') # FailedLoads(navs) =>
            /\ \A m \in 1..Len(modules) :
                 modules'[m].errorLoaded = modules[m].errorLoaded
            /\ httpErrorCodes' = httpErrorCodes]_vars
    /\ [](\A m \in LoaderModules : \A n \in NavsTo(m) :
            (\A k \in NavsTo(m) : k < n => navs[k].load = "failed")
                => navs[n].load # "none")

\* A load of a module has failed and the next navigation to the module has
\* invoked the loader again.
C18_Witness ==
    \E m \in LoaderModules : \E n, k \in NavsTo(m) :
        /\ n < k
        /\ navs[n].load = "failed"
        /\ navs[k].load # "none"
        /\ loaderCalls[m] = 2

\* C19: a module whose errorLoaded flag is true has had the mapping of its
\* loader merged, so the registry holds every key of that mapping; and a flag
\* that is true stays true.
C19_LoadedMeansMerged ==
    /\ [](\A m \in 1..Len(modules) :
            modules[m].errorLoaded =>
                /\ loaderMerges[m] >= 1
                /\ \A c \in Codes :
                     ErrorsOf(m)[c] # NoDesc => httpErrorCodes[c] # NoDesc)
    /\ [][\A m \in 1..Len(modules) :
            modules[m].errorLoaded => modules'[m].errorLoaded]_vars

\* The second module has loaded its error definitions.
C19_Witness ==
    /\ Len(modules) >= 2
    /\ modules[2].errorLoaded
    /\ httpErrorCodes["E2"] = "z"

\* C20: the step in which the guard aborts a navigation obtains no context
\* and writes no params, invokes no loader, and leaves the registry and the
\* errorLoaded flags as they were.
C20_AbortChangesNothing ==
    [][(Len(navs') = Len(navs) + 1 /\ navs'[Len(navs')].result = "abort") =>
         /\ UNCHANGED <<contexts, clients, globalContext, routeContext>>
         /\ UNCHANGED <<loaderCalls, loaderMerges, staticMerges>>
         /\ UNCHANGED <<httpErrorCodes, modules>>]_vars

\* A navigation to the root has been aborted after another navigation had
\* obtained the context and loaded its module.
C20_Witness ==
    /\ Len(navs) = 3
    /\ navs[3].result = "abort"
    /\ navs[2].load = "ok"
    /\ contexts[navs[2].ctx].params = 2
====
